---- MODULE Spec2Model ----
\* ProviderRegistrar (identity/registry/provider_registrar.go): the worker
\* loop started by node "Started" events, the unbuffered queue fed by
\* consumeServiceEvent and by delayedRequeue goroutines, the shutdown channel
\* closed under sync.Once, and the registration pipeline with its chain calls.
EXTENDS Integers, Sequences, FiniteSets, TLC

\* ---------------------------------------------------------------- bounds
MaxEvents == 2        \* service-status events delivered by the event bus
MaxStarted == 2       \* start() goroutines running at the same time
MaxRetriesCfg == 1    \* largest cfg.MaxRetries the model configures

Events == 1..MaxEvents

\* ------------------------------------------------------------ data values
IdentityOrder == <<"0xid1", "0xid2">>
Identities == {IdentityOrder[i] : i \in 1..Len(IdentityOrder)}
Running == "Running"
StatusValues == {Running, "NotRunning"}

Registered == "Registered"
Unregistered == "Unregistered"
RegistrationStatuses == {Registered, Unregistered}

\* Chain ids read from the configuration flags.
L1Chain == "chain1"
L2Chain == "chain2"

\* Addresses are 20 bytes in the program; the model keeps two of them, the
\* fifth and the eighth: in newRegistryAddress the fifth (0xFB) is no valid
\* UTF-8 and the eighth (0x66) is a letter, the two kinds of byte on which
\* bytes.EqualFold is coarser than equality.
RuneError == 65533

DecodeRune(b) == IF b < 128 THEN b ELSE RuneError

SimpleFoldEq(r, s) ==
    \/ r = s
    \/ r \in 65..90 /\ s = r + 32
    \/ s \in 65..90 /\ r = s + 32

EqualFold(s, t) ==
    /\ Len(s) = Len(t)
    /\ \A i \in 1..Len(s) : SimpleFoldEq(DecodeRune(s[i]), DecodeRune(t[i]))

zeroAddress == <<0, 0>>
newRegistryAddress == <<251, 102>>
oldRegistryAddress == <<78, 91>>

isZeroAddress(in) == EqualFold(in, zeroAddress)

\* Answers the chain gateway can give.
RegistryAnswers == {newRegistryAddress, <<251, 70>>, oldRegistryAddress}
BeneficiaryAnswers == {zeroAddress, <<70, 70>>}
ChannelAnswers == {zeroAddress, <<102, 255>>}
NoAddress == <<>>

\* What a chain call gave back: the call, whether it returned an error, and
\* the status or the address it returned.
NoAnswer == [call |-> "", err |-> FALSE, val |-> "", addr |-> NoAddress]
Answer(call, err, val, addr) == [call |-> call, err |-> err, val |-> val, addr |-> addr]

\* ------------------------------------------------------------------ state
\* The start() goroutines are interchangeable and a goroutine inside the
\* pipeline holds exactly one queuedEvent, so the state keeps the number of
\* goroutines at each idle position and, with each event, the position of
\* the goroutine that holds it.
VARIABLES
    cfg,                   \* ProviderRegistrarConfig and the chain-id flags
    stopChan,              \* "open" | "closed"
    closes,                \* number of close(pr.stopChan) executed
    once,                  \* sync.Once: TRUE when done
    stopCalls,             \* pr.stop() calls made: "none", "one", "several"
    registeredIdentities,  \* pr.registeredIdentities (keys)
    selecting,             \* start() goroutines waiting in their select
    loc,                   \* where each queuedEvent is
    event,                 \* qe.event of each queuedEvent
    identitiesSeen,        \* how many identities the events have named so far
    retries,               \* qe.retries of each queuedEvent
    benef,                 \* beneficiary resolved for the event in the pipeline
    settleBeneficiary,     \* registerIdentity's local settleBeneficiary
    sent,                  \* address argument of the chain call in flight
    answer,                \* history: what the last chain call of the run returned
    attempts,              \* history: handleEvent runs per event
    scheduled,             \* history: go delayedRequeue per event
    observedRegistered,    \* history: ids seen Registered or submitted
    crashed                \* "no", or why the Go runtime aborted the process

vars == <<cfg, stopChan, closes, once, stopCalls, registeredIdentities,
          selecting, loc, event, identitiesSeen, retries, benef,
          settleBeneficiary, sent, answer, attempts, scheduled,
          observedRegistered, crashed>>

eventVars == <<loc, event, retries, benef, settleBeneficiary, sent, answer,
               attempts, scheduled>>
stopVars == <<stopChan, closes, once, stopCalls>>

\* Places of a queuedEvent.  In ChainCallPCs and "mapWrite" a start()
\* goroutine holds it and is inside that call or that map assignment.
ChainCallPCs == {"GetRegistrationStatus", "CheckIfRegistrationBountyEligible",
                 "GetRegistryAddress", "GetBeneficiary", "GetChannelAddress",
                 "RegisterIdentity", "Save"}
PipelinePCs == ChainCallPCs \cup {"mapWrite"}
SendingLocs == {"producerSend", "waiterSend"}
WaiterLocs == {"waiterSelect", "waiterSend"}
EventLocs == {"unborn", "done", "dropped", "fatal"}
                 \cup SendingLocs \cup WaiterLocs \cup PipelinePCs

NoEvent == [ProviderID |-> "", Status |-> ""]

Configs ==
    [IsTestnet3 : BOOLEAN, MaxRetries : {0, MaxRetriesCfg},
     chainID : {L1Chain, L2Chain}, l1chainID : {L1Chain}, l2chainID : {L2Chain}]

\* NewProviderRegistrar
Init ==
    /\ cfg \in Configs
    /\ stopChan = "open"
    /\ closes = 0
    /\ once = FALSE
    /\ stopCalls = "none"
    /\ registeredIdentities = {}
    /\ selecting = 0
    /\ loc = [e \in Events |-> "unborn"]
    /\ event = [e \in Events |-> NoEvent]
    /\ identitiesSeen = 0
    /\ retries = [e \in Events |-> 0]
    /\ benef = [e \in Events |-> NoAddress]
    /\ settleBeneficiary = [e \in Events |-> NoAddress]
    /\ sent = [e \in Events |-> NoAddress]
    /\ answer = [e \in Events |-> NoAnswer]
    /\ attempts = [e \in Events |-> 0]
    /\ scheduled = [e \in Events |-> 0]
    /\ observedRegistered = {}
    /\ crashed = "no"

chainID == cfg.chainID
l1chainID == cfg.l1chainID
l2chainID == cfg.l2chainID

qe(e) == [event |-> event[e], retries |-> retries[e]]

InPipeline == {e \in Events : loc[e] \in PipelinePCs}
\* start() goroutines still running: a returned goroutine leaves no state
\* behind (the one that gave an event up left that event "fatal").
Live == selecting + Cardinality(InPipeline)

\* Events are taken in order, and an event names an identity already seen or
\* the first one not seen yet: identities are opaque to the program.
NextUnborn == {e \in Events : loc[e] = "unborn" /\ \A d \in Events : d < e => loc[d] # "unborn"}
IdentityIndex(id) == CHOOSE i \in 1..Len(IdentityOrder) : IdentityOrder[i] = id
NextIdentities ==
    {IdentityOrder[i] : i \in {j \in 1..Len(IdentityOrder) : j <= identitiesSeen + 1}}

\* The queuedEvent e ceases to exist at place `end`: its fields and its
\* history are forgotten, except `ans`, the answer that ended it.
Terminate(e, end, ans) ==
    /\ loc' = [loc EXCEPT ![e] = end]
    /\ event' = [event EXCEPT ![e] = NoEvent]
    /\ retries' = [retries EXCEPT ![e] = 0]
    /\ attempts' = [attempts EXCEPT ![e] = 0]
    /\ scheduled' = [scheduled EXCEPT ![e] = 0]
    /\ benef' = [benef EXCEPT ![e] = NoAddress]
    /\ settleBeneficiary' = [settleBeneficiary EXCEPT ![e] = NoAddress]
    /\ sent' = [sent EXCEPT ![e] = NoAddress]
    /\ answer' = [answer EXCEPT ![e] = ans]

Discard(e, end) == Terminate(e, end, NoAnswer)

\* ------------------------------------------------- event-bus deliveries
\* handleNodeStartupEvents, e.Status == StatusStarted: the handler goroutine
\* enters start() and reaches its select.
NodeStarted ==
    /\ Live < MaxStarted
    /\ selecting' = selecting + 1
    /\ UNCHANGED <<cfg, identitiesSeen, stopVars, registeredIdentities,
                   eventVars, observedRegistered, crashed>>

\* stop() without the sync.Once guard: every call closes the channel.
stopWithoutOnce ==
    /\ stopChan' = "closed"
    /\ closes' = closes + 1
    /\ crashed' = IF stopChan = "closed" THEN "closeOfClosedChannel" ELSE crashed
    /\ UNCHANGED once

\* stop(): once.Do runs its function under the Once's mutex, so the test of
\* done, the close and the store of done are one step for every other
\* caller, and concurrent calls of stop() take effect in some order.
stop ==
    IF ~once
      THEN /\ stopChan' = "closed"
           /\ closes' = closes + 1
           /\ crashed' = IF stopChan = "closed" THEN "closeOfClosedChannel" ELSE crashed
           /\ once' = TRUE
      ELSE UNCHANGED <<stopChan, closes, crashed, once>>

\* handleNodeStartupEvents, e.Status == StatusStopped
NodeStopped ==
    /\ stopCalls' = IF stopCalls = "none" THEN "one" ELSE "several"
    /\ stop
    /\ UNCHANGED <<cfg, identitiesSeen, selecting, registeredIdentities, eventVars,
                   observedRegistered>>

\* consumeServiceEvent: builds queuedEvent{event, retries: 0} and blocks in
\* the send on the unbuffered pr.queue until a worker receives it.
consumeServiceEvent(e, id, st) ==
    /\ e \in NextUnborn
    /\ id \in NextIdentities
    /\ loc' = [loc EXCEPT ![e] = "producerSend"]
    /\ event' = [event EXCEPT ![e] = [ProviderID |-> id, Status |-> st]]
    /\ retries' = [retries EXCEPT ![e] = 0]
    /\ identitiesSeen' = IF IdentityIndex(id) > identitiesSeen
                           THEN IdentityIndex(id) ELSE identitiesSeen
    /\ UNCHANGED <<cfg, stopVars, selecting, registeredIdentities, benef,
                   settleBeneficiary, sent, answer, attempts, scheduled,
                   observedRegistered, crashed>>

\* ------------------------------------------ the waiter: delayedRequeue()
\* select, case <-pr.stopChan: return
delayedRequeueStopped(e) ==
    /\ loc[e] = "waiterSelect"
    /\ stopChan = "closed"
    /\ Discard(e, "dropped")
    /\ UNCHANGED <<cfg, identitiesSeen, stopVars, selecting, registeredIdentities,
                   observedRegistered, crashed>>

\* select, case <-time.After(pr.cfg.DelayBetweenRetries): the goroutine goes
\* on to the plain send pr.queue <- qe and blocks there until a worker
\* receives.
delayedRequeueTimer(e) ==
    /\ loc[e] = "waiterSelect"
    /\ loc' = [loc EXCEPT ![e] = "waiterSend"]
    /\ UNCHANGED <<cfg, identitiesSeen, stopVars, selecting, registeredIdentities, event,
                   retries, benef, settleBeneficiary, sent, answer, attempts,
                   scheduled, observedRegistered, crashed>>

\* --------------------------------------------------- the worker: start()
\* A map lookup that overlaps another goroutine's map write is a data race:
\* it may see the map before or after that write.
MapWriting(e) == \E d \in Events \ {e} : loc[d] = "mapWrite"
MapLookup(e, id) ==
    IF MapWriting(e) THEN BOOLEAN ELSE {id \in registeredIdentities}

\* needsHandling without the known-registered test.
needsHandlingStatusOnly(q, known) == q.event.Status = Running

\* needsHandling(qe); known is the result of the registeredIdentities lookup.
needsHandling(q, known) ==
    IF q.event.Status # Running THEN FALSE
    ELSE IF known THEN FALSE
    ELSE TRUE

\* start(), case <-pr.stopChan: return nil
startStopped ==
    /\ selecting > 0
    /\ stopChan = "closed"
    /\ selecting' = selecting - 1
    /\ UNCHANGED <<cfg, identitiesSeen, stopVars, registeredIdentities, eventVars,
                   observedRegistered, crashed>>

\* The receive of start()'s select, needsHandling, and the entry of
\* handleEventWithRetries / handleEvent up to the GetRegistrationStatus call;
\* `ready` tells whether the send of e can complete.
receive(e, ready) ==
    /\ ready
    /\ loc[e] \in SendingLocs
    /\ \E known \in MapLookup(e, event[e].ProviderID) :
         IF needsHandling(qe(e), known)
           THEN /\ selecting' = selecting - 1
                /\ loc' = [loc EXCEPT ![e] = "GetRegistrationStatus"]
                /\ attempts' = [attempts EXCEPT ![e] = @ + 1]
                /\ answer' = [answer EXCEPT ![e] = NoAnswer]
                /\ UNCHANGED <<event, retries, benef, settleBeneficiary, sent,
                               scheduled>>
           ELSE \* break: back to the select
                /\ Terminate(e, "done",
                             Answer("needsHandling", FALSE, event[e].Status, NoAddress))
                /\ UNCHANGED selecting
    /\ UNCHANGED <<cfg, identitiesSeen, stopVars, registeredIdentities,
                   observedRegistered, crashed>>

\* A queue with a buffer: the send completes with no goroutine in its select.
startReceiveBuffered(e) == receive(e, TRUE)

\* start(), case event := <-pr.queue: pr.queue is unbuffered, so the send of
\* e completes only in a rendezvous with a goroutine waiting in its select.
startReceive(e) == receive(e, selecting > 0)

\* handleEventWithRetries returns nil after handleEvent returned nil: the
\* loop goes back to its select.  `ans` is the answer that ended the run
\* early, NoAnswer after the map write.
Finish(e, ans) ==
    /\ Terminate(e, "done", ans)
    /\ selecting' = selecting + 1

\* handleEventWithRetries after handleEvent returned an error: `retry` is
\* the test of line 157, `inc` what line 159 adds to qe.retries.  The call
\* that failed, the one the goroutine was in, is kept as the answer.
retryOrGiveUp(e, retry, inc) ==
    /\ IF retry
         THEN \* qe.retries++; go pr.delayedRequeue(qe); return nil
              /\ retries' = [retries EXCEPT ![e] = @ + inc]
              /\ scheduled' = [scheduled EXCEPT ![e] = @ + 1]
              /\ loc' = [loc EXCEPT ![e] = "waiterSelect"]
              /\ benef' = [benef EXCEPT ![e] = NoAddress]
              /\ settleBeneficiary' = [settleBeneficiary EXCEPT ![e] = NoAddress]
              /\ sent' = [sent EXCEPT ![e] = NoAddress]
              /\ answer' = [answer EXCEPT ![e] = Answer(loc[e], TRUE, "", NoAddress)]
              /\ selecting' = selecting + 1
              /\ UNCHANGED <<event, attempts>>
         ELSE \* return errors.Wrap(err, "max attempts reached ..."), which
              \* start() returns
              /\ Terminate(e, "fatal", Answer(loc[e], TRUE, "", NoAddress))
              /\ UNCHANGED selecting

\* Plausible slips of line 157 and line 159.
handleEventWithRetriesInclusive(e) ==
    retryOrGiveUp(e, retries[e] <= cfg.MaxRetries, 1)
handleEventWithRetriesEarly(e) ==
    retryOrGiveUp(e, retries[e] + 1 < cfg.MaxRetries, 1)
handleEventWithRetriesNoIncrement(e) ==
    retryOrGiveUp(e, retries[e] < cfg.MaxRetries, 0)

\* handleEventWithRetries, err != nil
handleEventWithRetries(e) ==
    retryOrGiveUp(e, retries[e] < cfg.MaxRetries, 1)

\* Proceed with a test of stopChan before every further call.
ProceedUnlessStopped(e, call, ans, arg) ==
    /\ loc' = [loc EXCEPT ![e] = IF stopChan = "closed" THEN "dropped" ELSE call]
    /\ answer' = [answer EXCEPT ![e] = ans]
    /\ sent' = [sent EXCEPT ![e] = arg]
    /\ UNCHANGED <<selecting, event, retries, attempts, scheduled>>

\* The goroutine holding e got `ans` from the call it was in and moves on to
\* `call`, a chain call with the address argument `arg`, or the map
\* assignment.  Nothing here looks at stopChan.
Proceed(e, call, ans, arg) ==
    /\ loc' = [loc EXCEPT ![e] = call]
    /\ answer' = [answer EXCEPT ![e] = ans]
    /\ sent' = [sent EXCEPT ![e] = arg]
    /\ UNCHANGED <<selecting, event, retries, attempts, scheduled>>

\* registerIdentity without the isZeroAddress test of line 230.
registerIdentityNoZeroCheck(e, b, ans) ==
    /\ benef' = [benef EXCEPT ![e] = b]
    /\ settleBeneficiary' = [settleBeneficiary EXCEPT ![e] = b]
    /\ IF chainID = l2chainID
         THEN Proceed(e, "GetChannelAddress", ans, NoAddress)
         ELSE Proceed(e, "RegisterIdentity", ans, b)

\* registerIdentity(qe, id, b) up to its first chain call; ans is the answer
\* that produced b.
registerIdentity(e, b, ans) ==
    IF isZeroAddress(b)
      THEN Finish(e, ans)
      ELSE /\ benef' = [benef EXCEPT ![e] = b]
           /\ settleBeneficiary' = [settleBeneficiary EXCEPT ![e] = b]
           /\ IF chainID = l2chainID
                THEN Proceed(e, "GetChannelAddress", ans, NoAddress)
                ELSE Proceed(e, "RegisterIdentity", ans, b)

\* registerIdentityIfEligible with the eligibility check made in every mode.
registerIdentityIfEligibleAlways(e, ans) ==
    Proceed(e, "CheckIfRegistrationBountyEligible", ans, NoAddress)

\* registerIdentityIfEligible(qe) up to its first chain call.
registerIdentityIfEligible(e, ans) ==
    IF ~cfg.IsTestnet3
      THEN Proceed(e, "CheckIfRegistrationBountyEligible", ans, NoAddress)
      ELSE Proceed(e, "GetRegistryAddress", ans, NoAddress)

\* handleEvent without the `case Registered` of its switch.
handleEventNoRegisteredCase(e, registered) ==
    /\ registerIdentityIfEligible(e, Answer("GetRegistrationStatus", FALSE, registered, NoAddress))
    /\ UNCHANGED <<benef, settleBeneficiary, observedRegistered>>

\* handleEvent: the switch on the status GetRegistrationStatus returned.
handleEvent(e, registered) ==
    IF registered = Registered
      THEN /\ Proceed(e, "mapWrite",
                      Answer("GetRegistrationStatus", FALSE, registered, NoAddress),
                      NoAddress)
           /\ observedRegistered' = observedRegistered \cup {event[e].ProviderID}
           /\ UNCHANGED <<benef, settleBeneficiary>>
      ELSE /\ registerIdentityIfEligible(e,
                      Answer("GetRegistrationStatus", FALSE, registered, NoAddress))
           /\ UNCHANGED <<benef, settleBeneficiary, observedRegistered>>

\* handleEvent: GetRegistrationStatus returns.
GetRegistrationStatusReturns(e) ==
    /\ loc[e] = "GetRegistrationStatus"
    /\ \/ /\ handleEventWithRetries(e)
          /\ UNCHANGED observedRegistered
       \/ \E registered \in RegistrationStatuses : handleEvent(e, registered)
    /\ UNCHANGED <<cfg, identitiesSeen, stopVars, registeredIdentities, crashed>>

\* Lines 215-221 without the `if !eligible` return.
eligibilityIgnored(e, eligible) ==
    /\ Proceed(e, "GetRegistryAddress",
               Answer("CheckIfRegistrationBountyEligible", FALSE,
                      IF eligible THEN "eligible" ELSE "ineligible", NoAddress),
               NoAddress)
    /\ UNCHANGED <<benef, settleBeneficiary>>

\* registerIdentityIfEligible, lines 215-221: what follows an eligibility
\* answer that came without error.
eligibilityAnswered(e, eligible) ==
    IF ~eligible
      THEN Finish(e, Answer("CheckIfRegistrationBountyEligible", FALSE, "ineligible",
                            NoAddress))
      ELSE /\ Proceed(e, "GetRegistryAddress",
                      Answer("CheckIfRegistrationBountyEligible", FALSE, "eligible",
                             NoAddress),
                      NoAddress)
           /\ UNCHANGED <<benef, settleBeneficiary>>

\* registerIdentityIfEligible: CheckIfRegistrationBountyEligible returns.
CheckIfRegistrationBountyEligibleReturns(e) ==
    /\ loc[e] = "CheckIfRegistrationBountyEligible"
    /\ \/ handleEventWithRetries(e)
       \/ \E eligible \in BOOLEAN : eligibilityAnswered(e, eligible)
    /\ UNCHANGED <<cfg, identitiesSeen, stopVars, registeredIdentities, observedRegistered, crashed>>

\* A GetRegistryAddress error logged and swallowed like the GetBeneficiary
\* error: the run goes on with the zero beneficiary.
registryLookupFailedSwallowed(e) ==
    registerIdentity(e, zeroAddress, Answer("GetRegistryAddress", TRUE, "", zeroAddress))

\* GetRegistryAddress returned an error: getBeneficiaryFromOldRegistry
\* returns it (line 274), registerIdentityIfEligible returns it (line 223),
\* and it reaches handleEventWithRetries.
registryLookupFailed(e) == handleEventWithRetries(e)

\* getBeneficiaryFromOldRegistry: GetRegistryAddress returns.
GetRegistryAddressReturns(e) ==
    /\ loc[e] = "GetRegistryAddress"
    /\ \/ registryLookupFailed(e)
       \/ \E registryAddress \in RegistryAnswers :
            IF EqualFold(registryAddress, newRegistryAddress)
              THEN /\ Proceed(e, "GetBeneficiary",
                              Answer("GetRegistryAddress", FALSE, "", registryAddress),
                              oldRegistryAddress)
                   /\ UNCHANGED <<benef, settleBeneficiary>>
              ELSE registerIdentity(e, zeroAddress,
                              Answer("GetRegistryAddress", FALSE, "", registryAddress))
    /\ UNCHANGED <<cfg, identitiesSeen, stopVars, registeredIdentities, observedRegistered, crashed>>

\* getBeneficiaryFromOldRegistry: GetBeneficiary returns (b, failed); the
\* error is logged and b is returned with a nil error either way.
GetBeneficiaryReturns(e) ==
    /\ loc[e] = "GetBeneficiary"
    /\ \E b \in BeneficiaryAnswers, failed \in BOOLEAN :
         registerIdentity(e, b, Answer("GetBeneficiary", failed, "", b))
    /\ UNCHANGED <<cfg, identitiesSeen, stopVars, registeredIdentities, observedRegistered, crashed>>

\* registerIdentity: GetChannelAddress returns.
GetChannelAddressReturns(e) ==
    /\ loc[e] = "GetChannelAddress"
    /\ \/ handleEventWithRetries(e)
       \/ \E c \in ChannelAnswers :
            /\ settleBeneficiary' = [settleBeneficiary EXCEPT ![e] = c]
            /\ Proceed(e, "RegisterIdentity",
                       Answer("GetChannelAddress", FALSE, "", c), c)
            /\ UNCHANGED benef
    /\ UNCHANGED <<cfg, identitiesSeen, stopVars, registeredIdentities, observedRegistered, crashed>>

\* Save called with settleBeneficiary.Hex().
SaveArgumentSettle(e) == settleBeneficiary[e]

\* The address of pr.saver.Save(id.Address, benef.Hex()), line 255.
SaveArgument(e) == benef[e]

\* registerIdentity: RegisterIdentity returns.
RegisterIdentityReturns(e) ==
    /\ loc[e] = "RegisterIdentity"
    /\ \/ /\ handleEventWithRetries(e)
          /\ UNCHANGED observedRegistered
       \/ /\ observedRegistered' = observedRegistered \cup {event[e].ProviderID}
          /\ IF chainID = l2chainID
               THEN /\ Proceed(e, "Save",
                               Answer("RegisterIdentity", FALSE, "", NoAddress),
                               SaveArgument(e))
                    /\ UNCHANGED <<benef, settleBeneficiary>>
               ELSE /\ Proceed(e, "mapWrite",
                               Answer("RegisterIdentity", FALSE, "", NoAddress),
                               NoAddress)
                    /\ benef' = [benef EXCEPT ![e] = NoAddress]
                    /\ settleBeneficiary' = [settleBeneficiary EXCEPT ![e] = NoAddress]
    /\ UNCHANGED <<cfg, identitiesSeen, stopVars, registeredIdentities, crashed>>

\* registerIdentity: saver.Save returns; its error is only logged.
SaveReturns(e) ==
    /\ loc[e] = "Save"
    /\ \E failed \in BOOLEAN :
         Proceed(e, "mapWrite", Answer("Save", failed, "", NoAddress), NoAddress)
    /\ benef' = [benef EXCEPT ![e] = NoAddress]
    /\ settleBeneficiary' = [settleBeneficiary EXCEPT ![e] = NoAddress]
    /\ UNCHANGED <<cfg, identitiesSeen, stopVars, registeredIdentities,
                   observedRegistered, crashed>>

\* A map write that replaces the set by the one identity written.
markRegisteredReplace(e) ==
    /\ loc[e] = "mapWrite"
    /\ registeredIdentities' = {event[e].ProviderID}
    /\ Finish(e, NoAnswer)
    /\ UNCHANGED <<cfg, identitiesSeen, stopVars, observedRegistered, crashed>>

\* pr.registeredIdentities[qe.event.ProviderID] = struct{}{} completes and
\* the pipeline returns nil (line 197 after a Registered status, line 260
\* after a submission).
markRegistered(e) ==
    /\ loc[e] = "mapWrite"
    /\ registeredIdentities' = registeredIdentities \cup {event[e].ProviderID}
    /\ Finish(e, NoAnswer)
    /\ UNCHANGED <<cfg, identitiesSeen, stopVars, observedRegistered, crashed>>

\* Two map writes, or a map lookup and a map write, that overlap: the Go
\* runtime may detect the race and abort the process.
RuntimeFatal ==
    /\ \/ \E e \in Events : loc[e] = "mapWrite" /\ MapWriting(e)
       \/ \E e \in Events :
            /\ selecting > 0 /\ loc[e] \in SendingLocs
            /\ event[e].Status = Running
            /\ MapWriting(e)
    /\ crashed' = "concurrentMapAccess"
    /\ UNCHANGED <<cfg, identitiesSeen, stopVars, selecting, registeredIdentities, eventVars,
                   observedRegistered>>

\* ------------------------------------------------------- specifications
PipelineStep(e) ==
    \/ GetRegistrationStatusReturns(e)
    \/ CheckIfRegistrationBountyEligibleReturns(e)
    \/ GetRegistryAddressReturns(e)
    \/ GetBeneficiaryReturns(e)
    \/ GetChannelAddressReturns(e)
    \/ RegisterIdentityReturns(e)
    \/ SaveReturns(e)
    \/ markRegistered(e)

\* A process the runtime aborted takes no further step.
Alive == crashed = "no"

Next ==
    \/ Alive /\ NodeStarted
    \/ Alive /\ NodeStopped
    \/ Alive /\ \E e \in Events, id \in Identities, st \in StatusValues :
                  consumeServiceEvent(e, id, st)
    \/ Alive /\ startStopped
    \/ Alive /\ \E e \in Events : startReceive(e)
    \/ Alive /\ \E e \in Events : GetRegistrationStatusReturns(e)
    \/ Alive /\ \E e \in Events : CheckIfRegistrationBountyEligibleReturns(e)
    \/ Alive /\ \E e \in Events : GetRegistryAddressReturns(e)
    \/ Alive /\ \E e \in Events : GetBeneficiaryReturns(e)
    \/ Alive /\ \E e \in Events : GetChannelAddressReturns(e)
    \/ Alive /\ \E e \in Events : RegisterIdentityReturns(e)
    \/ Alive /\ \E e \in Events : SaveReturns(e)
    \/ Alive /\ \E e \in Events : markRegistered(e)
    \/ Alive /\ \E e \in Events : delayedRequeueStopped(e)
    \/ Alive /\ \E e \in Events : delayedRequeueTimer(e)
    \/ Alive /\ RuntimeFatal

Spec == Init /\ [][Next]_vars

\* The Go scheduler runs every runnable goroutine, every chain call returns
\* and every timer fires (weak fairness).  A select with several ready cases
\* picks one at random, so a sender that is ready again and again is
\* eventually received (strong fairness).  The event bus is not obliged to
\* deliver further events, and a race need not be detected.
Fairness ==
    /\ WF_vars(Alive /\ startStopped)
    /\ \A e \in Events : SF_vars(Alive /\ startReceive(e))
    /\ \A e \in Events : WF_vars(Alive /\ PipelineStep(e))
    /\ \A e \in Events : WF_vars(Alive /\ delayedRequeueStopped(e))
    /\ \A e \in Events : WF_vars(Alive /\ delayedRequeueTimer(e))

FairSpec == Spec /\ Fairness

TypeOK ==
    /\ cfg \in Configs
    /\ stopChan \in {"open", "closed"}
    /\ closes \in 0..1
    /\ once \in BOOLEAN
    /\ stopCalls \in {"none", "one", "several"}
    /\ registeredIdentities \subseteq Identities
    /\ selecting \in 0..MaxStarted
    /\ Live <= MaxStarted
    /\ loc \in [Events -> EventLocs]
    /\ \A e \in Events :
         /\ answer[e].err \in BOOLEAN
         /\ sent[e] \in {NoAddress, oldRegistryAddress} \cup BeneficiaryAnswers \cup ChannelAnswers
    /\ identitiesSeen \in 0..Len(IdentityOrder)
    /\ observedRegistered \subseteq Identities
    /\ crashed \in {"no", "closeOfClosedChannel", "concurrentMapAccess"}

\* ------------------------------------------------------------- claims
\* A step in which the pipeline run for e returns an error to
\* handleEventWithRetries: the event leaves a chain call for a retry waiter
\* or is given up.
ErrorReturned(e) ==
    /\ loc[e] \in ChainCallPCs
    /\ loc'[e] \in {"waiterSelect", "fatal"}

\* A step in which a worker receives e from a blocked sender.
Received(e) ==
    /\ loc[e] \in SendingLocs
    /\ loc'[e] # loc[e]

\* C1: once an identity was seen Registered by GetRegistrationStatus, or
\* RegisterIdentity succeeded for it, no RegisterIdentity call is made for
\* that identity any more.
C1_NoResubmission ==
    [][\A e \in Events :
         (loc'[e] = "RegisterIdentity" /\ loc[e] # "RegisterIdentity")
            => event[e].ProviderID \notin observedRegistered]_vars

\* C2: at any time at most one worker is inside the pipeline (one chain call
\* in flight, one writer of the known-registered set).
C2_SingleWorkerInPipeline == Cardinality(InPipeline) <= 1

\* C3: an error returned for an event whose retry count equals the maximum
\* schedules no requeue, gives the event up, and ends the worker that was
\* processing it: that goroutine does not return to its select.
C3_ExhaustedRetriesEndWorker ==
    [][\A e \in Events :
         (ErrorReturned(e) /\ retries[e] = cfg.MaxRetries)
            => /\ loc'[e] = "fatal"
               /\ scheduled'[e] = 0
               /\ selecting' = selecting
               /\ Live' = Live - 1]_vars

C3_Witness ==
    /\ cfg.MaxRetries = 0
    /\ Live = 0
    /\ \E e \in Events : loc[e] = "fatal"
    /\ \E e \in Events : loc[e] = "producerSend"

\* C4: after a worker loop exited on exhausted retries, no chain call is made
\* again, whatever events follow.
C4_NoCallAfterFatalExit ==
    [][(\E e \in Events : loc[e] = "fatal")
          => \A e \in Events : loc'[e] \in ChainCallPCs => loc'[e] = loc[e]]_vars

\* C5: an error returned for an event whose retry count is below the maximum
\* adds exactly one to the retry count, starts exactly one delayed requeue of
\* the event, and leaves the worker running, back at its select.
C5_RetryBelowMaximum ==
    [][\A e \in Events :
         (ErrorReturned(e) /\ retries[e] < cfg.MaxRetries)
            => /\ retries'[e] = retries[e] + 1
               /\ scheduled'[e] = scheduled[e] + 1
               /\ loc'[e] = "waiterSelect"
               /\ selecting' = selecting + 1
               /\ Live' = Live]_vars

C5_Witness ==
    /\ Live = 1
    /\ selecting = 1
    /\ \E e \in Events :
         /\ loc[e] = "waiterSelect"
         /\ retries[e] = 1
         /\ scheduled[e] = 1
         /\ attempts[e] = 1

\* C6: with max retries N, every failed attempt of an event up to the N-th
\* schedules exactly one requeue, so the attempt N+1 runs with exactly N
\* requeues scheduled; when it succeeds the worker goes back to its select,
\* and a worker ends with an error only on a failure of attempt N+1.
C6_RetriesThenSuccess ==
    [][\A e \in Events :
         /\ loc[e] \in PipelinePCs => scheduled[e] = attempts[e] - 1
         /\ (loc[e] \in PipelinePCs /\ loc'[e] = "done"
               /\ attempts[e] = cfg.MaxRetries + 1)
              => /\ scheduled[e] = cfg.MaxRetries
                 /\ selecting' = selecting + 1
                 /\ Live' = Live
         /\ (loc'[e] = "fatal" /\ loc[e] # "fatal")
              => attempts[e] = cfg.MaxRetries + 1]_vars

C6_Witness ==
    /\ cfg.MaxRetries >= 1
    /\ stopChan = "open"
    /\ \E e \in Events :
         /\ loc[e] = "mapWrite"
         /\ attempts[e] = cfg.MaxRetries + 1
         /\ scheduled[e] = cfg.MaxRetries

\* C7: the retry count of a queued event is 0 when consumeServiceEvent
\* creates it, never decreases while the event exists, never exceeds the
\* maximum, and the pipeline runs at most MaxRetries + 1 times for it.
C7_RetryCountBounded ==
    /\ [](\A e \in Events :
            /\ retries[e] \in 0..cfg.MaxRetries
            /\ attempts[e] <= cfg.MaxRetries + 1)
    /\ [][\A e \in Events :
            /\ (loc[e] = "unborn" /\ loc'[e] # "unborn") => retries'[e] = 0
            /\ loc'[e] \notin {"done", "dropped", "fatal"}
                 => retries'[e] >= retries[e]]_vars

C7_Witness ==
    /\ cfg.MaxRetries >= 1
    /\ \E e \in Events :
         /\ loc[e] \in ChainCallPCs
         /\ retries[e] = cfg.MaxRetries
         /\ attempts[e] = cfg.MaxRetries + 1

\* C8: once stopChan is closed, no event held by a retry waiter is received
\* by a worker.
C8_NoRequeueAfterStop ==
    [][stopChan = "closed"
          => \A e \in Events : loc[e] \in WaiterLocs => ~Received(e)]_vars

\* C9: however many times stop() is called, stopChan is closed exactly once,
\* by the first call, and no close of a closed channel happens.
C9_StopClosesOnce ==
    /\ closes <= 1
    /\ crashed # "closeOfClosedChannel"
    /\ (stopCalls # "none") <=> (stopChan = "closed")
    /\ (stopChan = "closed") <=> (closes = 1)
    /\ (stopChan = "closed") <=> once

C9_Witness ==
    /\ stopCalls = "several"
    /\ stopChan = "closed"
    /\ closes = 1

\* C10: after stopChan is closed, every retry waiter eventually terminates:
\* none stays blocked for ever, neither in its select nor in its send.
C10_WaitersEndAfterStop ==
    \A e \in Events :
        (stopChan = "closed" /\ loc[e] \in WaiterLocs)
            ~> (loc[e] \notin WaiterLocs \/ ~Alive)

\* C11: a shutdown signalled while a worker is inside the pipeline for an
\* event does not interrupt that run: with stopChan closed the run is never
\* abandoned, every step it takes is the pipeline's own next step, a
\* successful submission is still followed by Save (on the settlement chain)
\* and by the map write that adds the identity, and only a goroutine waiting
\* in its select leaves on the shutdown.
C11_InFlightRunCompletes ==
    [][\A e \in Events :
         (stopChan = "closed" /\ loc[e] \in PipelinePCs)
            => /\ loc'[e] \in PipelinePCs \cup {"done", "waiterSelect", "fatal"}
               /\ (loc[e] = "RegisterIdentity" /\ loc'[e] \in PipelinePCs
                     /\ loc'[e] # loc[e])
                    => /\ loc'[e] = IF chainID = l2chainID THEN "Save" ELSE "mapWrite"
                       /\ event[e].ProviderID \in observedRegistered'
               /\ (loc[e] = "Save" /\ loc'[e] # loc[e]) => loc'[e] = "mapWrite"
               /\ (loc[e] = "mapWrite" /\ loc'[e] # loc[e])
                    => /\ loc'[e] = "done"
                       /\ event[e].ProviderID \in registeredIdentities'
                       /\ selecting' = selecting + 1
               /\ selecting' < selecting => loc'[e] = loc[e]]_vars

C11_Witness ==
    /\ stopChan = "closed"
    /\ selecting = 0
    /\ \E e \in Events :
         /\ loc[e] = "mapWrite"
         /\ answer[e].call = "Save"
         /\ event[e].ProviderID \notin registeredIdentities

\* C12: the queue buffers nothing: a send (of the service-status handler or
\* of a retry waiter) completes only in a step in which a goroutine waiting
\* in its select receives that event, one event per step, and the received
\* event either enters the pipeline once (one more attempt, one goroutine
\* fewer in its select) or is rejected; with no goroutine in its select the
\* sender stays blocked.
C12_UnbufferedHandoff ==
    [][/\ \A e \in Events :
            /\ Received(e)
                 => /\ selecting > 0
                    /\ \/ /\ loc'[e] = "GetRegistrationStatus"
                          /\ attempts'[e] = attempts[e] + 1
                          /\ selecting' = selecting - 1
                       \/ /\ loc'[e] = "done"
                          /\ selecting' = selecting
            /\ (loc[e] \in SendingLocs /\ selecting = 0) => loc'[e] = loc[e]
       /\ \A e, d \in Events : (Received(e) /\ Received(d)) => e = d]_vars

C12_Witness ==
    /\ selecting = 0
    /\ Live = 1
    /\ \E e, d \in Events :
         /\ loc[e] = "producerSend"
         /\ loc[d] \in ChainCallPCs
         /\ attempts[d] = 1

C14_RegisteredShortCircuit ==
    /\ [](\A e \in Events :
            (answer[e].call = "GetRegistrationStatus" /\ answer[e].val = Registered)
               => loc[e] = "mapWrite")
    /\ [][\A e \in Events :
            (loc[e] = "mapWrite" /\ answer[e].val = Registered /\ loc'[e] # loc[e])
              => /\ loc'[e] = "done"
                 /\ event[e].ProviderID \in registeredIdentities'
                 /\ selecting' = selecting + 1
                 /\ Live' = Live]_vars

C14_Witness ==
    \E e \in Events :
      /\ loc[e] = "mapWrite"
      /\ answer[e].call = "GetRegistrationStatus"
      /\ answer[e].val = Registered
      /\ event[e].ProviderID \notin registeredIdentities

\* C15: outside testnet mode an eligibility answer of false, given without
\* error, ends the run at once: no registry-address lookup, beneficiary
\* lookup or submission follows, no retry is scheduled, the known-registered
\* set is unchanged, and the worker is back at its select; the registry
\* lookup is reached only after an answer of true.
C15_IneligibleEndsRun ==
    /\ [](\A e \in Events :
            /\ answer[e].val = "ineligible" => (loc[e] = "done" /\ ~cfg.IsTestnet3)
            /\ (~cfg.IsTestnet3 /\ loc[e] = "GetRegistryAddress")
                 => /\ answer[e].call = "CheckIfRegistrationBountyEligible"
                    /\ answer[e].val = "eligible")
    /\ [][\A e \in Events :
            (loc[e] = "CheckIfRegistrationBountyEligible"
               /\ answer'[e].val = "ineligible")
              => /\ loc'[e] = "done"
                 /\ scheduled'[e] = 0
                 /\ registeredIdentities' = registeredIdentities
                 /\ observedRegistered' = observedRegistered
                 /\ selecting' = selecting + 1
                 /\ Live' = Live]_vars

C15_Witness ==
    /\ selecting = 1
    /\ Live = 1
    /\ \E e \in Events :
         /\ loc[e] = "done"
         /\ answer[e].call = "CheckIfRegistrationBountyEligible"
         /\ answer[e].val = "ineligible"

\* C16: in testnet mode the eligibility check is never called and a status
\* answer other than Registered leads straight to the registry-address
\* lookup; outside testnet mode such an answer leads to the eligibility
\* check, which a run enters from nowhere else, so once per run.
C16_EligibilityCheckByMode ==
    /\ [](\A e \in Events :
            cfg.IsTestnet3 => /\ loc[e] # "CheckIfRegistrationBountyEligible"
                              /\ answer[e].call # "CheckIfRegistrationBountyEligible")
    /\ [][\A e \in Events :
            /\ (loc[e] = "GetRegistrationStatus" /\ answer'[e].val = Unregistered)
                 => loc'[e] = IF cfg.IsTestnet3
                                THEN "GetRegistryAddress"
                                ELSE "CheckIfRegistrationBountyEligible"
            /\ (loc'[e] = "CheckIfRegistrationBountyEligible" /\ loc'[e] # loc[e])
                 => /\ loc[e] = "GetRegistrationStatus"
                    /\ answer'[e].val = Unregistered
                    /\ attempts'[e] = attempts[e]]_vars

C16_Witness ==
    /\ cfg.IsTestnet3
    /\ \E e \in Events :
         /\ loc[e] = "GetRegistryAddress"
         /\ answer[e].call = "GetRegistrationStatus"
         /\ answer[e].val = Unregistered

\* C17: a zero beneficiary ends the run at once: channel-address resolution,
\* submission and Save are only ever reached with a non-zero beneficiary, and
\* the run that resolved the zero address ends without error and without a
\* retry, leaves the known-registered set unchanged and returns the worker to
\* its select.
C17_ZeroBeneficiaryEndsRun ==
    /\ [](\A e \in Events :
            /\ loc[e] \in {"GetChannelAddress", "RegisterIdentity", "Save"}
                 => (benef[e] # zeroAddress /\ benef[e] # NoAddress)
            /\ (answer[e].call = "GetBeneficiary" /\ answer[e].addr = zeroAddress)
                 => loc[e] = "done"
            /\ (answer[e].call = "GetRegistryAddress" /\ ~answer[e].err
                  /\ loc[e] # "GetBeneficiary")
                 => loc[e] = "done")
    /\ [][\A e \in Events :
            (loc[e] \in {"GetRegistryAddress", "GetBeneficiary"} /\ loc'[e] = "done")
              => /\ scheduled'[e] = 0
                 /\ registeredIdentities' = registeredIdentities
                 /\ observedRegistered' = observedRegistered
                 /\ selecting' = selecting + 1
                 /\ Live' = Live]_vars

C17_Witness ==
    /\ selecting = 1
    /\ Live = 1
    /\ registeredIdentities = {}
    /\ \E e \in Events :
         /\ loc[e] = "done"
         /\ answer[e] = Answer("GetBeneficiary", FALSE, "", zeroAddress)

\* C18: a GetBeneficiary call that returns an error, whatever address comes
\* with it, makes the run continue with the zero beneficiary, so the run ends
\* there and goes on to no channel-address resolution and no submission.
C18_FailedBeneficiaryReadIsZero ==
    \A e \in Events :
        (answer[e].call = "GetBeneficiary" /\ answer[e].err) => loc[e] = "done"

\* C19: with a non-zero beneficiary B, on the settlement chain
\* (chainID = l2chainID) RegisterIdentity is handed the address GetChannelAddress
\* returned and Save is handed B, not that address; on another chain
\* RegisterIdentity is handed B itself, and GetChannelAddress and Save are
\* never called.
C19_SubmissionAndSaveAddresses ==
    \A e \in Events :
        /\ loc[e] = "GetChannelAddress"
             => /\ chainID = l2chainID
                /\ answer[e].call = "GetBeneficiary"
                /\ benef[e] = answer[e].addr
        /\ loc[e] = "RegisterIdentity"
             => IF chainID = l2chainID
                  THEN /\ answer[e].call = "GetChannelAddress"
                       /\ sent[e] = answer[e].addr
                  ELSE /\ answer[e].call = "GetBeneficiary"
                       /\ answer[e].addr \in BeneficiaryAnswers \ {zeroAddress}
                       /\ sent[e] = answer[e].addr
        /\ loc[e] = "Save"
             => /\ chainID = l2chainID
                /\ answer[e] = Answer("RegisterIdentity", FALSE, "", NoAddress)
                /\ sent[e] \in BeneficiaryAnswers \ {zeroAddress}
                /\ sent[e] = benef[e]
        /\ chainID # l2chainID => loc[e] \notin {"GetChannelAddress", "Save"}

C19_Witness ==
    /\ chainID = l2chainID
    /\ \E e \in Events :
         /\ loc[e] = "Save"
         /\ settleBeneficiary[e] \in ChannelAnswers \ {zeroAddress}
         /\ sent[e] \in BeneficiaryAnswers \ {zeroAddress}
         /\ sent[e] # settleBeneficiary[e]

\* C20: when Save fails after a successful submission the run still ends
\* without error, with the identity added to the known-registered set and no
\* retry, and no RegisterIdentity call is made for that identity again.
C20_SaveFailureKeepsRegistration ==
    [][\A d \in Events :
         (loc[d] = "mapWrite" /\ answer[d].call = "Save" /\ answer[d].err)
            => /\ loc'[d] # loc[d]
                    => /\ loc'[d] = "done"
                       /\ scheduled'[d] = 0
                       /\ event[d].ProviderID \in registeredIdentities'
                       /\ selecting' = selecting + 1
               /\ \A e \in Events \ {d} :
                    event[e].ProviderID = event[d].ProviderID
                       => ~(loc'[e] = "RegisterIdentity" /\ loc[e] # "RegisterIdentity")]_vars

\* C21: the beneficiary argument of every RegisterIdentity call is a
\* non-zero address, whether it is the raw beneficiary or the channel
\* address GetChannelAddress resolved.
C21_SubmittedBeneficiaryNonZero ==
    \A e \in Events :
        loc[e] = "RegisterIdentity"
           => (sent[e] # zeroAddress /\ sent[e] # NoAddress)

\* C22: GetBeneficiary is called, and so a submission can follow, only when
\* the registry address GetRegistryAddress returned is the new-registry
\* constant; with any other registry address the run makes neither call.
C22_BeneficiaryReadOnlyForNewRegistry ==
    \A e \in Events :
        /\ loc[e] = "GetBeneficiary"
             => /\ answer[e].call = "GetRegistryAddress"
                /\ answer[e].addr = newRegistryAddress
        /\ loc[e] \in {"GetChannelAddress", "RegisterIdentity", "Save"}
             => (benef[e] # zeroAddress /\ benef[e] # NoAddress)

\* C23: once stopChan is closed no worker receives an event any more,
\* neither from a producer nor from a retry waiter, even when that sender is
\* already blocked on the queue when the worker reaches its select.
C23_NoDequeueAfterStop ==
    [][stopChan = "closed" => \A e \in Events : ~Received(e)]_vars

\* C24: an error of GetRegistryAddress is not swallowed: the run never goes
\* on after it, it schedules one retry while the retry count is below the
\* maximum, and at the maximum it gives the event up and ends the worker.
C24_RegistryLookupErrorPropagates ==
    /\ [](\A e \in Events :
            (answer[e].call = "GetRegistryAddress" /\ answer[e].err)
               => loc[e] \in WaiterLocs \cup {"fatal"})
    /\ [][\A e \in Events :
            (loc[e] = "GetRegistryAddress" /\ answer'[e].err)
              => IF retries[e] < cfg.MaxRetries
                   THEN /\ loc'[e] = "waiterSelect"
                        /\ retries'[e] = retries[e] + 1
                        /\ scheduled'[e] = scheduled[e] + 1
                        /\ selecting' = selecting + 1
                        /\ Live' = Live
                   ELSE /\ loc'[e] = "fatal"
                        /\ scheduled'[e] = 0
                        /\ selecting' = selecting
                        /\ Live' = Live - 1]_vars

C24_Witness ==
    \E e, d \in Events :
      /\ loc[e] = "fatal"
      /\ answer[e] = Answer("GetRegistryAddress", TRUE, "", NoAddress)
      /\ loc[d] = "waiterSelect"
      /\ answer[d] = Answer("GetRegistryAddress", TRUE, "", NoAddress)
      /\ retries[d] = 1

C26_ProducerReturnsAfterWorkerExit ==
    \A e \in Events :
        (/\ loc[e] = "producerSend"
         /\ Live = 0
         /\ \E d \in Events : loc[d] \in {"done", "fatal"})
            ~> (loc[e] # "producerSend" \/ ~Alive)

====
